---- MODULE Spec2Model ----
(***************************************************************************)
(* Model of the humanize `_fast` extension: the value normalisation and    *)
(* formatting pipeline shared by intcomma, intword and naturalsize, and    *)
(* the batch fan-out over a collection.                                    *)
(*                                                                         *)
(* Text is a sequence of one-character strings.  A binary64 value is a     *)
(* record: k = "nan" | "inf" | "fin"; a finite value is                    *)
(* (-1)^neg * mant * 10^exp * 2^bin (mant without trailing zeros) moved by *)
(* `ulp` units in the last place.  `bin` is nonzero only for the byte      *)
(* counts and quotients of the 1024-based size schemes; `ulp` is nonzero   *)
(* only where a binary64 operation of the source returns a double that is  *)
(* not the double nearest to the decimal result (see powers_diff).         *)
(***************************************************************************)
EXTENDS Integers, Sequences, FiniteSets, TLC

(* ------------------------------ text ---------------------------------- *)

DIGITS == <<"0", "1", "2", "3", "4", "5", "6", "7", "8", "9">>

UPPER == <<"A", "B", "C", "D", "E", "F", "G", "H", "I", "J", "K", "L", "M",
           "N", "O", "P", "Q", "R", "S", "T", "U", "V", "W", "X", "Y", "Z">>

LOWER == <<"a", "b", "c", "d", "e", "f", "g", "h", "i", "j", "k", "l", "m",
           "n", "o", "p", "q", "r", "s", "t", "u", "v", "w", "x", "y", "z">>

WHITESPACE == {" ", "\t", "\n", "\r"}

IsDigit(c) == \E d \in 1..10 : DIGITS[d] = c

DigitVal(c) == (CHOOSE d \in 1..10 : DIGITS[d] = c) - 1

to_ascii_lowercase_char(c) ==
    IF \E i \in 1..26 : UPPER[i] = c
    THEN LOWER[CHOOSE i \in 1..26 : UPPER[i] = c]
    ELSE c

to_ascii_lowercase(s) == [i \in 1..Len(s) |-> to_ascii_lowercase_char(s[i])]

RECURSIVE trim_start(_)
trim_start(s) ==
    IF s # <<>> /\ Head(s) \in WHITESPACE THEN trim_start(Tail(s)) ELSE s

RECURSIVE trim_end(_)
trim_end(s) ==
    IF s # <<>> /\ s[Len(s)] \in WHITESPACE
    THEN trim_end(SubSeq(s, 1, Len(s) - 1))
    ELSE s

trim(s) == trim_end(trim_start(s))

(* str::replace(',', "") *)
remove_commas(s) == SelectSeq(s, LAMBDA c : c # ",")

RECURSIVE Pow10(_)
Pow10(n) == IF n <= 0 THEN 1 ELSE 10 * Pow10(n - 1)

RECURSIVE Pow5(_)
Pow5(n) == IF n <= 0 THEN 1 ELSE 5 * Pow5(n - 1)

RECURSIVE NumDigits(_)
NumDigits(m) == IF m < 10 THEN 1 ELSE 1 + NumDigits(m \div 10)

(* decimal digits of a natural number, most significant first *)
RECURSIVE DigitsOf(_)
DigitsOf(m) ==
    IF m < 10 THEN <<DIGITS[m + 1]>>
    ELSE DigitsOf(m \div 10) \o <<DIGITS[(m % 10) + 1]>>

Zeros(n) == [i \in 1..n |-> "0"]

PadLeft(ds, n) == IF Len(ds) >= n THEN ds ELSE Zeros(n - Len(ds)) \o ds

RECURSIVE StripLeadingZeros(_)
StripLeadingZeros(ds) ==
    IF ds # <<>> /\ Head(ds) = "0" THEN StripLeadingZeros(Tail(ds)) ELSE ds

RECURSIVE StripTrailingZeros(_)
StripTrailingZeros(ds) ==
    IF ds # <<>> /\ ds[Len(ds)] = "0"
    THEN StripTrailingZeros(SubSeq(ds, 1, Len(ds) - 1))
    ELSE ds

RECURSIVE ToNat(_)
ToNat(ds) ==
    IF ds = <<>> THEN 0
    ELSE 10 * ToNat(SubSeq(ds, 1, Len(ds) - 1)) + DigitVal(ds[Len(ds)])

(* number of leading decimal digits of s from position i on *)
RECURSIVE DigitRun(_, _)
DigitRun(s, i) ==
    IF i <= Len(s) /\ IsDigit(s[i]) THEN 1 + DigitRun(s, i + 1) ELSE 0

(* ----------------------------- binary64 ------------------------------- *)

NAN == [k |-> "nan", neg |-> FALSE, mant |-> 0, exp |-> 0, bin |-> 0, ulp |-> 0]

INF(neg) == [k |-> "inf", neg |-> neg, mant |-> 0, exp |-> 0, bin |-> 0, ulp |-> 0]

RECURSIVE NormMant(_)
NormMant(m) == IF m # 0 /\ m % 10 = 0 THEN NormMant(m \div 10) ELSE m

RECURSIVE NormShift(_)
NormShift(m) == IF m # 0 /\ m % 10 = 0 THEN 1 + NormShift(m \div 10) ELSE 0

(* the finite double nearest to (-1)^neg * m * 10^e *)
Fin(neg, m, e) ==
    [k |-> "fin", neg |-> neg, mant |-> NormMant(m),
     exp |-> IF m = 0 THEN 0 ELSE e + NormShift(m), bin |-> 0, ulp |-> 0]

is_nan(v) == v.k = "nan"

is_infinite(v) == v.k = "inf"

is_finite(v) == v.k = "fin"

is_sign_positive(v) == ~v.neg

(* decimal order of magnitude: |v| = 0.d1d2.. * 10^Ord(v) *)
Ord(v) == NumDigits(v.mant) + v.exp

(* ma * 10^-na < mb * 10^-nb, or they are equal and ua < ub: two mantissas
   of na and nb digits compared digit for digit, then by ulp *)
MantLt(ma, na, mb, nb, ua, ub) ==
    \/ ma * Pow10(nb - na) < mb * Pow10(na - nb)
    \/ ma * Pow10(nb - na) = mb * Pow10(na - nb) /\ ua < ub

(* |a| < |b| for finite a, b *)
MagLt(a, b) ==
    IF a.mant = 0 THEN b.mant # 0
    ELSE IF b.mant = 0 THEN FALSE
    ELSE IF Ord(a) # Ord(b) THEN Ord(a) < Ord(b)
    ELSE MantLt(a.mant, NumDigits(a.mant), b.mant, NumDigits(b.mant), a.ulp, b.ulp)

F64Abs(v) == [v EXCEPT !.neg = FALSE]

(* v < 0.0 *)
LtZero(v) == v.k = "fin" /\ v.neg /\ v.mant # 0

(* v / 10^p for a finite v: the quotient by a power of ten *)
DivPow10(v, p) == IF v.mant = 0 THEN v ELSE [v EXCEPT !.exp = v.exp - p]

(* f64::trunc *)
trunc(v) ==
    IF v.k # "fin" \/ v.exp >= 0 THEN v
    ELSE IF -v.exp >= NumDigits(v.mant) THEN Fin(v.neg, 0, 0)
    ELSE Fin(v.neg, v.mant \div Pow10(-v.exp), 0)

(* the decimal mant * 10^exp is a dyadic rational, hence (within the model's
   digit bounds) exactly representable *)
Dyadic(v) == v.exp >= 0 \/ (-v.exp <= 12 /\ v.mant % Pow5(-v.exp) = 0)

(* the double is exactly the decimal it was written as *)
Exact(v) == v.k = "fin" /\ v.ulp = 0 /\ Dyadic(v) /\ Ord(v) <= 15

(* the digits U of a number of 10^e units, e < 0, before and after the point *)
BeforePoint(U, e) == SubSeq(U, 1, Len(U) + e)

AfterPoint(U, e) == SubSeq(U, Len(U) + e + 1, Len(U))

IntDigits(m, e) == BeforePoint(PadLeft(DigitsOf(m), 1 - e), e)

FracDigits(m, e) == AfterPoint(PadLeft(DigitsOf(m), 1 - e), e)

Sign(v) == IF v.neg THEN <<"-">> ELSE <<>>

RECURSIVE Pow2(_)
Pow2(n) == IF n <= 0 THEN 1 ELSE 2 * Pow2(n - 1)

(* a finite value with bin # 0 as the fraction Num(v) / Den(v) *)
Num(v) ==
    v.mant * Pow10(IF v.exp > 0 THEN v.exp ELSE 0) * Pow2(IF v.bin > 0 THEN v.bin ELSE 0)

Den(v) ==
    Pow10(IF v.exp < 0 THEN -v.exp ELSE 0) * Pow2(IF v.bin < 0 THEN -v.bin ELSE 0)

PushDigit(d, rest) == [ds |-> <<d>> \o rest.ds, r |-> rest.r]

(* the next n decimal digits of r / den, r < den, and the remainder left *)
RECURSIVE LongDiv(_, _, _)
LongDiv(r, den, n) ==
    IF n = 0 THEN [ds |-> <<>>, r |-> r]
    ELSE PushDigit(DIGITS[((r * 10) \div den) + 1], LongDiv((r * 10) % den, den, n - 1))

(* the decimal digits of r / den up to the last nonzero one *)
RECURSIVE Expand(_, _)
Expand(r, den) ==
    IF r = 0 THEN <<>>
    ELSE <<DIGITS[((r * 10) \div den) + 1]>> \o Expand((r * 10) % den, den)

(* a digit string plus one *)
RECURSIVE IncDigits(_)
IncDigits(ds) ==
    IF ds = <<>> THEN <<"1">>
    ELSE IF ds[Len(ds)] = "9"
    THEN IncDigits(SubSeq(ds, 1, Len(ds) - 1)) \o <<"0">>
    ELSE SubSeq(ds, 1, Len(ds) - 1) \o <<DIGITS[DigitVal(ds[Len(ds)]) + 2]>>

(* impl Display for f64 / f64::to_string: shortest decimal that reads back
   as the same double, never in exponent notation *)
to_string(v) ==
    IF v.k = "nan" THEN <<"N", "a", "N">>
    ELSE IF v.k = "inf" THEN Sign(v) \o <<"i", "n", "f">>
    ELSE IF v.bin # 0
    THEN Sign(v) \o DigitsOf(Num(v) \div Den(v))
            \o (IF Num(v) % Den(v) = 0 THEN <<>>
                ELSE <<".">> \o Expand(Num(v) % Den(v), Den(v)))
    ELSE IF v.exp >= 0 THEN Sign(v) \o DigitsOf(v.mant) \o Zeros(v.exp)
    ELSE Sign(v) \o IntDigits(v.mant, v.exp) \o <<".">> \o FracDigits(v.mant, v.exp)

(* i64 as f64 / i64::to_string for the integers of the model *)
IntToF64(i) == IF i < 0 THEN Fin(TRUE, -i, 0) ELSE Fin(FALSE, i, 0)

(* How a decimal tie at the last kept digit is settled: to even when the
   double is exactly the tie, otherwise to the side on which the binary
   expansion of the double falls, which the decimal does not determine
   (side = "up" | "down") *)
TieOf(exact, side) == IF exact THEN "even" ELSE side

(* quotient q and remainder r of a division whose half is `half`, rounded *)
RoundPick(q, r, half, tie) ==
    IF r > half THEN q + 1
    ELSE IF r < half THEN q
    ELSE IF tie = "up" THEN q + 1
    ELSE IF tie = "down" THEN q
    ELSE IF q % 2 = 1 THEN q + 1 ELSE q

(* mant * 10^exp with its last k digits rounded away *)
RoundDrop(m, k, tie) ==
    IF k > NumDigits(m) THEN 0
    ELSE RoundPick(m \div Pow10(k), m % Pow10(k), 5 * Pow10(k - 1), tie)

(* the digit string R of a number of 10^-prec units, written with its point *)
PointText(R, prec) ==
    IF prec = 0 THEN R
    ELSE SubSeq(R, 1, Len(R) - prec) \o <<".">> \o SubSeq(R, Len(R) - prec + 1, Len(R))

(* the digits U of the truncated quotient, rounded by the remainder r *)
RoundDigits(U, r, den, tie) ==
    IF \/ 2 * r > den
       \/ 2 * r = den /\ (tie = "up" \/ (tie = "even" /\ DigitVal(U[Len(U)]) % 2 = 1))
    THEN IncDigits(U)
    ELSE U

RationalDigits(ip, fd, den, tie) == RoundDigits(DigitsOf(ip) \o fd.ds, fd.r, den, tie)

(* format!("{:.*}", prec, value) for a finite value with bin # 0 *)
RenderRational(v, prec, tie) ==
    Sign(v) \o PointText(RationalDigits(Num(v) \div Den(v),
                                        LongDiv(Num(v) % Den(v), Den(v), prec),
                                        Den(v), tie), prec)

(* format!("{:.*}", prec, value) *)
RenderFixed(v, prec, tie) ==
    IF v.k # "fin" THEN to_string(v)
    ELSE IF v.bin # 0 THEN RenderRational(v, prec, tie)
    ELSE IF v.exp >= 0
    THEN Sign(v) \o PointText(DigitsOf(v.mant) \o Zeros(v.exp + prec), prec)
    ELSE IF -v.exp <= prec
    THEN Sign(v) \o PointText(PadLeft(DigitsOf(v.mant), 1 - v.exp) \o Zeros(prec + v.exp), prec)
    ELSE Sign(v) \o PointText(PadLeft(DigitsOf(RoundDrop(v.mant, -v.exp - prec, tie)),
                                      prec + 1), prec)

(* --------------------------- format_utils.rs -------------------------- *)

SUFFIXES_DECIMAL ==
    << <<" ", "k", "B">>, <<" ", "M", "B">>, <<" ", "G", "B">>, <<" ", "T", "B">>, <<" ", "P", "B">>, <<" ", "E", "B">>, <<" ", "Z", "B">>, <<" ", "Y", "B">>, <<" ", "R", "B">>, <<" ", "Q", "B">> >>

SUFFIXES_BINARY ==
    << <<" ", "K", "i", "B">>, <<" ", "M", "i", "B">>, <<" ", "G", "i", "B">>, <<" ", "T", "i", "B">>, <<" ", "P", "i", "B">>, <<" ", "E", "i", "B">>, <<" ", "Z", "i", "B">>, <<" ", "Y", "i", "B">>, <<" ", "R", "i", "B">>, <<" ", "Q", "i", "B">> >>

SUFFIXES_GNU == <<"K", "M", "G", "T", "P", "E", "Z", "Y", "R", "Q">>

Some(v) == [ok |-> TRUE, v |-> v]

None == [ok |-> FALSE, v |-> NAN]

(* core::num::dec2flt::parse_inf_nan: "nan", "inf", "infinity" in any case *)
match_inf_nan(l, neg) ==
    IF l = <<"n", "a", "n">> THEN Some(NAN)
    ELSE IF l = <<"i", "n", "f">> \/ l = <<"i", "n", "f", "i", "n", "i", "t", "y">>
    THEN Some(INF(neg))
    ELSE None

parse_inf_nan(s, neg) == match_inf_nan(to_ascii_lowercase(s), neg)

(* the double nearest to (-1)^neg * 0.Dt * 10^ord, Dt a digit string without
   leading or trailing zeros: infinite above f64::MAX, zero below the
   smallest subnormal *)
DecimalBuild(neg, Dt, ord) ==
    IF Dt = <<>> THEN Fin(neg, 0, 0)
    ELSE IF ord > 309 \/ (ord = 309 /\ ToNat(SubSeq(Dt \o Zeros(9), 1, 9)) > 179769313)
    THEN INF(neg)
    ELSE IF ord < -323 THEN Fin(neg, 0, 0)
    ELSE Fin(neg, ToNat(Dt), ord - Len(Dt))

(* the double nearest to (-1)^neg * D * 10^e, D a digit string *)
DecimalToF64(neg, D, e) ==
    DecimalBuild(neg, StripTrailingZeros(StripLeadingZeros(D)),
                 Len(StripLeadingZeros(D)) + e)

(* core::num::dec2flt::parse_number, the exponent: ne digits from position
   ed on, which must end the text *)
parse_exp_digits(s, neg, D, nf, minus, ed, ne) ==
    IF ne > 0 /\ ed + ne - 1 = Len(s)
    THEN Some(DecimalToF64(neg, D,
                 (IF minus THEN -ToNat(SubSeq(s, ed, Len(s)))
                  ELSE ToNat(SubSeq(s, ed, Len(s)))) - nf))
    ELSE None

(* a parser of digits [. digits] only: anything after the mantissa fails *)
parse_after_mantissa_plain(s, neg, D, nf, p) ==
    IF D = <<>> THEN None
    ELSE IF p > Len(s) THEN Some(DecimalToF64(neg, D, -nf))
    ELSE None

(* ... the text from position p on, after the mantissa digits D of which nf
   follow the point: nothing, or (e|E) [+|-] digits *)
parse_after_mantissa(s, neg, D, nf, p) ==
    IF D = <<>> THEN None
    ELSE IF p > Len(s) THEN Some(DecimalToF64(neg, D, -nf))
    ELSE IF s[p] \notin {"e", "E"} THEN None
    ELSE IF p + 1 <= Len(s) /\ s[p + 1] \in {"+", "-"}
    THEN parse_exp_digits(s, neg, D, nf, s[p + 1] = "-", p + 2, DigitRun(s, p + 2))
    ELSE parse_exp_digits(s, neg, D, nf, FALSE, p + 1, DigitRun(s, p + 1))

(* ... after ni integer digits, an optional point and nf fraction digits *)
parse_fraction(s, neg, ni, nf) ==
    parse_after_mantissa(s, neg, SubSeq(s, 1, ni) \o SubSeq(s, ni + 2, ni + 1 + nf),
                         nf, ni + 2 + nf)

(* core::num::dec2flt::parse_number: digits [. digits] [(e|E) [+|-] digits],
   at least one mantissa digit, the whole string consumed *)
parse_integer(s, neg, ni) ==
    IF ni + 1 <= Len(s) /\ s[ni + 1] = "."
    THEN parse_fraction(s, neg, ni, DigitRun(s, ni + 2))
    ELSE parse_after_mantissa(s, neg, SubSeq(s, 1, ni), 0, ni + 1)

parse_number(s, neg) == parse_integer(s, neg, DigitRun(s, 1))

OrElse(a, b) == IF a.ok THEN a ELSE b

(* <f64 as FromStr>::from_str: an optional sign, then a number or, failing
   that, inf / infinity / nan *)
parse_signed(rest, neg) ==
    IF rest = <<>> THEN None
    ELSE OrElse(parse_number(rest, neg), parse_inf_nan(rest, neg))

parse_f64(s) ==
    IF s = <<>> THEN None
    ELSE IF s[1] \in {"-", "+"} THEN parse_signed(Tail(s), s[1] = "-")
    ELSE parse_signed(s, FALSE)

parse_value(value) == parse_f64(remove_commas(value))

(* the match of normalize_special_values on the trimmed, lower-cased text *)
match_special(l) ==
    IF l = <<"i", "n", "f">> \/ l = <<"+", "i", "n", "f">> THEN [ok |-> TRUE, s |-> <<"+", "I", "n", "f">>]
    ELSE IF l = <<"-", "i", "n", "f">> THEN [ok |-> TRUE, s |-> <<"-", "I", "n", "f">>]
    ELSE IF l = <<"n", "a", "n">> THEN [ok |-> TRUE, s |-> <<"N", "a", "N">>]
    ELSE [ok |-> FALSE, s |-> <<>>]

normalize_special_values(s) == match_special(to_ascii_lowercase(trim(s)))

(* positive infinity rendered without its sign *)
format_not_finite_unsigned(v) ==
    IF is_nan(v) THEN <<"N", "a", "N">>
    ELSE IF is_infinite(v)
    THEN IF is_sign_positive(v) THEN <<"I", "n", "f">> ELSE <<"-", "I", "n", "f">>
    ELSE to_string(v)

format_not_finite(v) ==
    IF is_nan(v) THEN <<"N", "a", "N">>
    ELSE IF is_infinite(v)
    THEN IF is_sign_positive(v) THEN <<"+", "I", "n", "f">> ELSE <<"-", "I", "n", "f">>
    ELSE to_string(v)

Reverse(s) == [i \in 1..Len(s) |-> s[Len(s) + 1 - i]]

(* the separator pushed after every third character, also after the last *)
RECURSIVE add_commas_loop_trailing(_, _, _, _)
add_commas_loop_trailing(chars, i, count, result) ==
    IF i = 0 THEN result
    ELSE IF count = 2
    THEN add_commas_loop_trailing(chars, i - 1, 0, Append(Append(result, chars[i]), ","))
    ELSE add_commas_loop_trailing(chars, i - 1, count + 1, Append(result, chars[i]))

(* the loop of add_commas over chars.iter().rev(): i is the position of the
   next character, count the characters pushed since the last comma *)
RECURSIVE add_commas_loop(_, _, _, _)
add_commas_loop(chars, i, count, result) ==
    IF i = 0 THEN result
    ELSE IF count = 3
    THEN add_commas_loop(chars, i - 1, 1, Append(Append(result, ","), chars[i]))
    ELSE add_commas_loop(chars, i - 1, count + 1, Append(result, chars[i]))

add_commas(whole) == Reverse(add_commas_loop(whole, Len(whole), 0, <<>>))

(* RE_FLOAT_FORMAT = %\.(\d+)f matches at position i of s *)
MatchAt(s, i) ==
    /\ i + 3 <= Len(s)
    /\ s[i] = "%"
    /\ s[i + 1] = "."
    /\ DigitRun(s, i + 2) >= 1
    /\ i + 2 + DigitRun(s, i + 2) <= Len(s)
    /\ s[i + 2 + DigitRun(s, i + 2)] = "f"

(* the position of the leftmost match of RE_FLOAT_FORMAT, 0 without one *)
find_match(format_spec) ==
    IF \E i \in 1..Len(format_spec) : MatchAt(format_spec, i)
    THEN CHOOSE j \in 1..Len(format_spec) :
            /\ MatchAt(format_spec, j)
            /\ \A h \in 1..(j - 1) : ~MatchAt(format_spec, h)
    ELSE 0

(* group 1 of the match at position i *)
group1(format_spec, i) ==
    IF i = 0 THEN [ok |-> FALSE, s |-> <<>>]
    ELSE [ok |-> TRUE,
          s  |-> SubSeq(format_spec, i + 2, i + 1 + DigitRun(format_spec, i + 2))]

(* RE_FLOAT_FORMAT.captures(format_spec): group 1 of the leftmost match *)
RE_FLOAT_FORMAT(format_spec) == group1(format_spec, find_match(format_spec))

(* str::parse::<usize>() of a digit string: fails above usize::MAX *)
parse_usize(ds) ==
    IF Len(StripLeadingZeros(ds)) <= 19
    THEN [ok |-> TRUE, n |-> ToNat(StripLeadingZeros(ds))]
    ELSE [ok |-> FALSE, n |-> 0]

(* the precision apply_printf_style reads from the spec, if any *)
spec_precision(caps) == IF caps.ok THEN parse_usize(caps.s) ELSE [ok |-> FALSE, n |-> 0]

render_with(prec, value, tie) ==
    IF prec.ok THEN RenderFixed(value, prec.n, tie) ELSE to_string(value)

apply_printf_style(format_spec, value, tie) ==
    render_with(spec_precision(RE_FLOAT_FORMAT(format_spec)), value, tie)

(* ------------------------------ number.rs ----------------------------- *)

(* POWERS[i] = 10^POWER_EXP[i]; indices are the source's plus one *)
POWER_EXP == <<3, 6, 9, 12, 15, 18, 21, 24, 27, 30, 33, 100>>

POWERS == [i \in 1..12 |-> Fin(FALSE, 1, POWER_EXP[i])]

HUMAN_POWERS ==
    << <<"t", "h", "o", "u", "s", "a", "n", "d">>,
       <<"m", "i", "l", "l", "i", "o", "n">>,
       <<"b", "i", "l", "l", "i", "o", "n">>,
       <<"t", "r", "i", "l", "l", "i", "o", "n">>,
       <<"q", "u", "a", "d", "r", "i", "l", "l", "i", "o", "n">>,
       <<"q", "u", "i", "n", "t", "i", "l", "l", "i", "o", "n">>,
       <<"s", "e", "x", "t", "i", "l", "l", "i", "o", "n">>,
       <<"s", "e", "p", "t", "i", "l", "l", "i", "o", "n">>,
       <<"o", "c", "t", "i", "l", "l", "i", "o", "n">>,
       <<"n", "o", "n", "i", "l", "l", "i", "o", "n">>,
       <<"d", "e", "c", "i", "l", "l", "i", "o", "n">>,
       <<"g", "o", "o", "g", "o", "l">> >>

NoDigits == [ok |-> FALSE, n |-> 0]

SomeDigits(d) == [ok |-> TRUE, n |-> d]

(* the position of the first '.' of orig, 0 without one *)
find_dot(orig) ==
    IF \E i \in 1..Len(orig) : orig[i] = "."
    THEN CHOOSE j \in 1..Len(orig) : orig[j] = "." /\ \A h \in 1..(j - 1) : orig[h] # "."
    ELSE 0

split_at(orig, i) ==
    IF i = 0 THEN [whole |-> orig, hasFrac |-> FALSE, frac |-> <<>>]
    ELSE [whole |-> SubSeq(orig, 1, i - 1), hasFrac |-> TRUE,
          frac  |-> SubSeq(orig, i + 1, Len(orig))]

(* orig.split('.') : the text before the first '.', and the text after it *)
SplitDot(orig) == split_at(orig, find_dot(orig))

(* steps 5 and 6 of format_single_value: commas in the whole part, the sign
   and the fraction kept *)
group_parts(parts) ==
    (IF parts.whole # <<>> /\ parts.whole[1] = "-"
     THEN <<"-">> \o add_commas(Tail(parts.whole))
     ELSE add_commas(parts.whole))
      \o (IF parts.hasFrac THEN <<".">> \o parts.frac ELSE <<>>)

(* steps 3 and 4 *)
format_number(v, ndigits, tie) ==
    IF ~is_finite(v) THEN format_not_finite(v)
    ELSE group_parts(SplitDot(render_with(ndigits, v, TieOf(Exact(v), tie))))

(* step 2 *)
format_parsed(val_str, p, ndigits, tie) ==
    IF ~p.ok THEN val_str ELSE format_number(p.v, ndigits, tie)

(* step 1 *)
format_normalized(val_str, norm, ndigits, tie) ==
    IF norm.ok THEN norm.s
    ELSE format_parsed(val_str, parse_value(val_str), ndigits, tie)

format_single_value(val_str, ndigits, tie) ==
    format_normalized(val_str, normalize_special_values(val_str), ndigits, tie)

(* POWERS[i] / POWERS[i - 1] as binary64 computes it.  1e3 .. 1e21 are exact
   doubles and the quotients up to 1e30 / 1e27 round to 1000.0; 1e33 / 1e30
   is the double just below 1000.0 (999.9999999999999) and 1e100 / 1e33 the
   double just above the one nearest to 1e67 (1.0000000000000001e67). *)
powers_diff(i) ==
    [Fin(FALSE, 1, POWER_EXP[i] - POWER_EXP[i - 1])
        EXCEPT !.ulp = IF i = 11 THEN -1 ELSE IF i = 12 THEN 1 ELSE 0]

(* (a - b).abs() < f64::EPSILON for a, b >= 1.0: two doubles in that range
   are closer than EPSILON only when they are the same double *)
within_epsilon(a, b) == a = b

(* the first i in 2..12 with value < POWERS[i]; 0 when there is none *)
find_power(value) ==
    IF \E i \in 2..12 : MagLt(value, POWERS[i])
    THEN CHOOSE i \in 2..12 :
            MagLt(value, POWERS[i]) /\ \A h \in 2..(i - 1) : ~MagLt(value, POWERS[h])
    ELSE 0

unwrap_or(p, default) == IF p.ok THEN p.v ELSE default

(* the promotion labelled with the word after POWERS[i]'s *)
promote_skipping(value, format_spec, tie, i, chopped2) ==
    [form |-> "promoted", idx |-> IF i < 12 THEN i + 1 ELSE i,
     num  |-> apply_printf_style(format_spec, chopped2,
                                 TieOf(Exact(value) /\ Exact(chopped2), tie))]

(* the rounding overflowed: the value is scaled by POWERS[i] instead *)
promote(value, format_spec, tie, i, chopped2) ==
    [form |-> "promoted", idx |-> i,
     num  |-> apply_printf_style(format_spec, chopped2,
                                 TieOf(Exact(value) /\ Exact(chopped2), tie))]

(* the rendering of chopped is read back and compared with powers_diff *)
check_overflow(value, format_spec, tie, i, chopped, formatted) ==
    IF within_epsilon(unwrap_or(parse_value(formatted), chopped), powers_diff(i))
    THEN promote(value, format_spec, tie, i, DivPow10(value, POWER_EXP[i]))
    ELSE [form |-> "scaled", idx |-> i - 1, num |-> formatted]

scale_chopped(value, format_spec, tie, i, chopped) ==
    check_overflow(value, format_spec, tie, i, chopped,
                   apply_printf_style(format_spec, chopped,
                                      TieOf(Exact(value) /\ Exact(chopped), tie)))

(* the loop over POWERS, left at the first i with value < POWERS[i] *)
scale_at(value, format_spec, tie, i) ==
    IF i = 0 THEN [form |-> "beyond", idx |-> 0, num |-> to_string(value)]
    ELSE scale_chopped(value, format_spec, tie, i, DivPow10(value, POWER_EXP[i - 1]))

(* the body of intword_single for a finite magnitude: which form the output
   takes, its numeric text and the index into HUMAN_POWERS of its word *)
intword_scale(value, format_spec, tie) ==
    IF MagLt(value, POWERS[1])
    THEN [form |-> "plain", idx |-> 0, num |-> add_commas(to_string(trunc(value)))]
    ELSE scale_at(value, format_spec, tie, find_power(value))

scaled_text(r) ==
    IF r.idx = 0 THEN r.num ELSE r.num \o <<" ">> \o HUMAN_POWERS[r.idx]

intword_number(v, format_spec, tie) ==
    IF ~is_finite(v) THEN format_not_finite(v)
    ELSE (IF LtZero(v) THEN <<"-">> ELSE <<>>)
           \o scaled_text(intword_scale(F64Abs(v), format_spec, tie))

intword_parsed(val_str, p, format_spec, tie) ==
    IF ~p.ok THEN val_str ELSE intword_number(p.v, format_spec, tie)

intword_normalized(val_str, norm, format_spec, tie) ==
    IF norm.ok THEN norm.s
    ELSE intword_parsed(val_str, parse_value(val_str), format_spec, tie)

intword_single(val_str, format_spec, tie) ==
    intword_normalized(val_str, normalize_special_values(val_str), format_spec, tie)

(* -------------------------------- lib.rs ------------------------------ *)

lib_parse_value(value) == parse_f64(remove_commas(value))

lib_match_special(l) ==
    IF l = <<"i", "n", "f">> \/ l = <<"+", "i", "n", "f">> THEN [ok |-> TRUE, s |-> <<"+", "I", "n", "f">>]
    ELSE IF l = <<"-", "i", "n", "f">> THEN [ok |-> TRUE, s |-> <<"-", "I", "n", "f">>]
    ELSE IF l = <<"n", "a", "n">> THEN [ok |-> TRUE, s |-> <<"N", "a", "N">>]
    ELSE [ok |-> FALSE, s |-> <<>>]

lib_normalize_special_values(s) == lib_match_special(to_ascii_lowercase(trim(s)))

lib_format_not_finite(v) ==
    IF is_nan(v) THEN <<"N", "a", "N">>
    ELSE IF is_infinite(v)
    THEN IF is_sign_positive(v) THEN <<"I", "n", "f">> ELSE <<"-", "I", "n", "f">>
    ELSE to_string(v)

lib_add_commas(whole) == Reverse(add_commas_loop(whole, Len(whole), 0, <<>>))

lib_group_parts(parts) ==
    (IF parts.whole # <<>> /\ parts.whole[1] = "-"
     THEN <<"-">> \o lib_add_commas(Tail(parts.whole))
     ELSE lib_add_commas(parts.whole))
      \o (IF parts.hasFrac THEN <<".">> \o parts.frac ELSE <<>>)

lib_format_number(v, ndigits, tie) ==
    IF ~is_finite(v) THEN lib_format_not_finite(v)
    ELSE lib_group_parts(SplitDot(render_with(ndigits, v, TieOf(Exact(v), tie))))

lib_format_parsed(val_str, p, ndigits, tie) ==
    IF ~p.ok THEN val_str ELSE lib_format_number(p.v, ndigits, tie)

lib_format_normalized(val_str, norm, ndigits, tie) ==
    IF norm.ok THEN norm.s
    ELSE lib_format_parsed(val_str, lib_parse_value(val_str), ndigits, tie)

lib_format_single_value(val_str, ndigits, tie) ==
    lib_format_normalized(val_str, lib_normalize_special_values(val_str), ndigits, tie)

(* ------------------------------ filesize.rs --------------------------- *)

Numeric(v) == [tag |-> "Numeric", n |-> v, s |-> <<>>]

Raw(s) == [tag |-> "Raw", n |-> NAN, s |-> s]

(* a truncated value printed as an integer *)
i64_text(t) == IF t.mant = 0 THEN <<"0">> ELSE to_string(t)

(* `bytes as i64` printed, for |bytes| < 1024: truncation toward zero *)
as_i64(bytes) == i64_text(trunc(bytes))

(* abs_bytes < base, base = 1000 or 1024 *)
below_base(abs_bytes, base) ==
    IF abs_bytes.bin = 0 THEN MagLt(abs_bytes, Fin(FALSE, base, 0))
    ELSE abs_bytes.mant = 0

(* the number of powers of 1024 that are <= M, for an integer M < 2^31 *)
log1024(M) ==
    IF M >= 1073741824 THEN 3 ELSE IF M >= 1048576 THEN 2 ELSE IF M >= 1024 THEN 1 ELSE 0

(* (abs_bytes.ln() / base.ln()).floor() for abs_bytes >= base: the number of
   powers of the base that are <= abs_bytes.  The quotient of the two
   logarithms is a few units in the last place off, which carries it across
   an integer only for a magnitude within 1e-14 of a power of the base; the
   magnitudes modelled have at most 9 significant digits, and at the powers
   themselves the floor is the exponent.  The double one ulp below a power
   (ulp = -1) is closer to it than two logarithms are to each other: its
   ln() is the ln() of the power, and the floor is the power's exponent, so
   ulp is not looked at.  For base 1024 the integer part of mant * 10^exp,
   below 2^31, is compared with 1024, 1024^2 and 1024^3. *)
log_floor(abs_bytes, base) ==
    IF base = 1000 THEN (Ord(abs_bytes) - 1) \div 3
    ELSE (abs_bytes.bin \div 10) + log1024(Num(trunc([abs_bytes EXCEPT !.bin = 0])))

(* bytes / base.powi(exp) *)
div_powi(bytes, base, exp) ==
    IF base = 1000 THEN DivPow10(bytes, 3 * exp)
    ELSE IF bytes.mant = 0 THEN bytes
    ELSE [bytes EXCEPT !.bin = bytes.bin - 10 * exp]

(* exp clamped to 1 ..= max_exp *)
clamp_exp(exp, max_exp) == IF exp > max_exp THEN max_exp ELSE IF exp < 1 THEN 1 ELSE exp

table_len(binary, gnu) ==
    IF gnu THEN Len(SUFFIXES_GNU)
    ELSE IF binary THEN Len(SUFFIXES_BINARY)
    ELSE Len(SUFFIXES_DECIMAL)

(* SUFFIXES_GNU.chars().nth(exp - 1).unwrap_or('?'), or suffix[exp - 1] *)
suffix_of(binary, gnu, exp) ==
    IF gnu
    THEN (IF exp - 1 < Len(SUFFIXES_GNU) THEN <<SUFFIXES_GNU[exp]>> ELSE <<"?">>)
    ELSE IF binary THEN SUFFIXES_BINARY[exp]
    ELSE SUFFIXES_DECIMAL[exp]

(* whether a decimal tie of bytes / base^exp is an exact binary tie *)
exact_quotient(bytes, value, base) ==
    IF base = 1000 THEN Exact(bytes) /\ Exact(value) ELSE Exact(bytes)

(* the rendered quotient reads as the base itself *)
rounds_to_base(text, base) ==
    parse_value(text).ok /\ F64Abs(parse_value(text).v) = Fin(FALSE, base, 0)

(* a rendering that reaches the base moved to the next unit *)
scaled_value_promoted(bytes, base, binary, gnu, format_spec, tie, exp, value) ==
    IF exp < table_len(binary, gnu)
         /\ rounds_to_base(apply_printf_style(format_spec, value,
                               TieOf(exact_quotient(bytes, value, base), tie)), base)
    THEN [exp |-> exp + 1,
          num |-> apply_printf_style(format_spec, div_powi(bytes, base, exp + 1),
                                     TieOf(Exact(bytes), tie)),
          suf |-> suffix_of(binary, gnu, exp + 1)]
    ELSE [exp |-> exp,
          num |-> apply_printf_style(format_spec, value,
                                     TieOf(exact_quotient(bytes, value, base), tie)),
          suf |-> suffix_of(binary, gnu, exp)]

scaled_value(bytes, base, binary, gnu, format_spec, tie, exp, value) ==
    [exp |-> exp,
     num |-> apply_printf_style(format_spec, value,
                                TieOf(exact_quotient(bytes, value, base), tie)),
     suf |-> suffix_of(binary, gnu, exp)]

scaled_exp(bytes, base, binary, gnu, format_spec, tie, exp) ==
    scaled_value(bytes, base, binary, gnu, format_spec, tie, exp, div_powi(bytes, base, exp))

(* the scaled branch of format_numeric_value: the clamped exponent, the
   rendered quotient and the suffix *)
scaled_base(bytes, base, binary, gnu, format_spec, tie) ==
    scaled_exp(bytes, base, binary, gnu, format_spec, tie,
               clamp_exp(log_floor(F64Abs(bytes), base), table_len(binary, gnu)))

scaled_size_text(r) == r.num \o r.suf

numeric_base(bytes, base, binary, gnu, format_spec, tie) ==
    IF F64Abs(bytes) = Fin(FALSE, 1, 0) /\ ~gnu
    THEN as_i64(bytes) \o <<" ", "B", "y", "t", "e">>
    ELSE IF below_base(F64Abs(bytes), base)
    THEN as_i64(bytes) \o (IF gnu THEN <<"B">> ELSE <<" ", "B", "y", "t", "e", "s">>)
    ELSE scaled_size_text(scaled_base(bytes, base, binary, gnu, format_spec, tie))

format_numeric_value(bytes, binary, gnu, format_spec, tie) ==
    numeric_base(bytes, IF gnu \/ binary THEN 1024 ELSE 1000, binary, gnu, format_spec, tie)

(* --------------------------- host values (PyAny) ---------------------- *)

(* A host value: t = "str" (s its text), "float" | "int" | "bool" (v its
   value), "none", or "obj": any other object, with s the text repr() and
   str() return when they succeed, ty the Display of its type. *)
PyStr(s) ==
    [t |-> "str", s |-> s, v |-> NAN, ty |-> <<>>, repr_ok |-> TRUE, str_ok |-> TRUE]

PyFloat(v) ==
    [t |-> "float", s |-> <<>>, v |-> v, ty |-> <<>>, repr_ok |-> TRUE, str_ok |-> TRUE]

PyInt(i) ==
    [t |-> "int", s |-> <<>>, v |-> IntToF64(i), ty |-> <<>>, repr_ok |-> TRUE,
     str_ok |-> TRUE]

(* True or False: an int to the numeric extractions, "True"/"False" to str() *)
PyBool(b) ==
    [t |-> "bool", s |-> <<>>, v |-> IntToF64(IF b THEN 1 ELSE 0), ty |-> <<>>,
     repr_ok |-> TRUE, str_ok |-> TRUE]

PyNone ==
    [t |-> "none", s |-> <<>>, v |-> NAN, ty |-> <<>>, repr_ok |-> TRUE, str_ok |-> TRUE]

PyObj(ty, s, repr_ok, str_ok) ==
    [t |-> "obj", s |-> s, v |-> NAN, ty |-> ty, repr_ok |-> repr_ok, str_ok |-> str_ok]

NONE_TEXT == <<"N", "o", "n", "e">>

(* obj.extract::<String>() *)
extract_String(obj) == [ok |-> obj.t = "str", s |-> obj.s]

(* obj.extract::<f64>(): floats, and integers and booleans through their
   float conversion *)
extract_f64(obj) == [ok |-> obj.t \in {"float", "int", "bool"}, v |-> obj.v]

(* obj.extract::<i64>() *)
extract_i64(obj) == [ok |-> obj.t \in {"int", "bool"}, v |-> obj.v]

is_none(obj) == obj.t = "none"

(* format!("<unprintable object of type {}>", obj.get_type()) *)
unprintable(obj) == <<"<", "u", "n", "p", "r", "i", "n", "t", "a", "b", "l", "e", " ", "o", "b", "j", "e", "c", "t", " ", "o", "f", " ", "t", "y", "p", "e", " ">> \o obj.ty \o <<">">>

(* d.ddd from the significant digits ds *)
scientific(ds) == <<ds[1]>> \o (IF Len(ds) > 1 THEN <<".">> \o Tail(ds) ELSE <<>>)

(* str(float) of the host: "inf", "nan", otherwise the shortest decimal
   with a fractional part, in exponent notation from 1e16 on *)
py_float_str(v) ==
    IF v.k # "fin" THEN to_ascii_lowercase(to_string(v))
    ELSE IF v.exp < 0 THEN to_string(v)
    ELSE IF Ord(v) <= 16 THEN to_string(v) \o <<".", "0">>
    ELSE Sign(v) \o scientific(DigitsOf(v.mant)) \o <<"e", "+">> \o DigitsOf(Ord(v) - 1)

(* obj.str(): Ok(text) or Err *)
py_str(obj) ==
    IF obj.t = "str" THEN [ok |-> TRUE, s |-> obj.s]
    ELSE IF obj.t = "float" THEN [ok |-> TRUE, s |-> py_float_str(obj.v)]
    ELSE IF obj.t = "int" THEN [ok |-> TRUE, s |-> to_string(obj.v)]
    ELSE IF obj.t = "bool"
    THEN [ok |-> TRUE, s |-> IF obj.v.mant = 1 THEN <<"T", "r", "u", "e">> ELSE <<"F", "a", "l", "s", "e">>]
    ELSE IF obj.t = "none" THEN [ok |-> TRUE, s |-> NONE_TEXT]
    ELSE [ok |-> obj.str_ok, s |-> IF obj.str_ok THEN obj.s ELSE <<>>]

(* obj.repr() of a value that is neither text, number nor None *)
py_repr(obj) == [ok |-> obj.repr_ok, s |-> IF obj.repr_ok THEN obj.s ELSE <<>>]

(* The argument of an entry point: shape = "scalar" (item is the value) or
   a sequence of kind "list", "tuple" or "other" (any other non-text
   sequence) holding items; iter_err: iterating the sequence raises. *)
Scalar(item) == [shape |-> "scalar", item |-> item, items |-> <<>>, iter_err |-> FALSE]

Sequence(kind, items, iter_err) ==
    [shape |-> kind, item |-> PyNone, items |-> items, iter_err |-> iter_err]

(* the sequence object seen as one host value by the scalar path *)
AsObject(value) ==
    IF value.shape = "scalar" THEN value.item
    ELSE PyObj(<<"<", "c", "l", "a", "s", "s", " ", "'", "S", "e", "q", "'", ">">>, <<"S", "e", "q", "(", ".", ".", ".", ")">>, TRUE, TRUE)

(* results of an entry point *)
RetStr(s) == [kind |-> "str", s |-> s, items |-> <<>>]

RetSeq(kind, items) == [kind |-> kind, s |-> <<>>, items |-> items]

RetErr(kind) == [kind |-> kind, s |-> <<>>, items |-> <<>>]

(* ------------------------- number.rs entry points --------------------- *)

(* the closure element_to_string of intcomma *)
element_to_string(val) ==
    IF extract_String(val).ok THEN extract_String(val).s
    ELSE IF extract_f64(val).ok THEN to_string(extract_f64(val).v)
    ELSE IF extract_i64(val).ok THEN to_string(extract_i64(val).v)
    ELSE IF is_none(val) THEN NONE_TEXT
    ELSE IF py_repr(val).ok THEN py_repr(val).s
    ELSE unprintable(val)

(* intcomma takes the collection path: value.downcast::<PyList>() or
   value.downcast::<PyTuple>() succeeds *)
intcomma_is_collection(value) == value.shape \in {"list", "tuple"}

(* the scalar path of intcomma *)
intcomma_scalar(value, ndigits, tie) ==
    IF extract_String(value).ok
    THEN format_single_value(extract_String(value).s, ndigits, tie)
    ELSE IF extract_f64(value).ok
    THEN format_single_value(to_string(extract_f64(value).v), ndigits, tie)
    ELSE IF extract_i64(value).ok
    THEN format_single_value(to_string(extract_i64(value).v), ndigits, tie)
    ELSE IF is_none(value) THEN NONE_TEXT
    ELSE IF py_repr(value).ok THEN py_repr(value).s
    ELSE unprintable(value)

(* intword: the collection path stringifies with val.str().unwrap() *)
intword_is_collection(value) == value.shape \in {"list", "tuple"}

intword_element(val) == py_str(val)

intword_scalar(value, format, tie) ==
    IF extract_String(value).ok
    THEN intword_single(extract_String(value).s, format, tie)
    ELSE IF extract_f64(value).ok
    THEN intword_single(to_string(extract_f64(value).v), format, tie)
    ELSE IF extract_i64(value).ok
    THEN intword_single(to_string(extract_i64(value).v), format, tie)
    ELSE IF is_none(value) THEN NONE_TEXT
    ELSE IF py_repr(value).ok THEN py_repr(value).s
    ELSE unprintable(value)

(* --------------------------- lib.rs entry point ----------------------- *)

lib_element_to_string(val) ==
    IF extract_String(val).ok THEN extract_String(val).s
    ELSE IF extract_f64(val).ok THEN to_string(extract_f64(val).v)
    ELSE IF extract_i64(val).ok THEN to_string(extract_i64(val).v)
    ELSE IF is_none(val) THEN NONE_TEXT
    ELSE IF py_repr(val).ok THEN py_repr(val).s
    ELSE unprintable(val)

lib_intcomma_is_collection(value) == value.shape \in {"list", "tuple"}

lib_intcomma_scalar(value, ndigits, tie) ==
    IF extract_String(value).ok
    THEN lib_format_single_value(extract_String(value).s, ndigits, tie)
    ELSE IF extract_f64(value).ok
    THEN lib_format_single_value(to_string(extract_f64(value).v), ndigits, tie)
    ELSE IF extract_i64(value).ok
    THEN lib_format_single_value(to_string(extract_i64(value).v), ndigits, tie)
    ELSE IF is_none(value) THEN NONE_TEXT
    ELSE IF py_repr(value).ok THEN py_repr(value).s
    ELSE unprintable(value)

(* ------------------------ filesize.rs entry point --------------------- *)

numeric_or_raw(s, p) == IF p.ok THEN Numeric(p.v) ELSE Raw(s)

extract_to_extracted(obj) ==
    IF extract_f64(obj).ok THEN Numeric(extract_f64(obj).v)
    ELSE IF extract_i64(obj).ok THEN Numeric(extract_i64(obj).v)
    ELSE IF extract_String(obj).ok THEN numeric_or_raw(obj.s, parse_value(obj.s))
    ELSE IF is_none(obj) THEN Raw(NONE_TEXT)
    ELSE IF py_repr(obj).ok THEN Raw(py_repr(obj).s)
    ELSE Raw(unprintable(obj))

(* naturalsize takes the collection path: the value is neither str nor bytes
   and value.iter() succeeds *)
naturalsize_is_collection(value) == value.shape \in {"list", "tuple", "other"}

(* a number on either path of naturalsize *)
size_number(n, binary, gnu, format, tie) ==
    IF ~is_finite(n) THEN format_not_finite(n)
    ELSE format_numeric_value(n, binary, gnu, format, tie)

normalized_or(norm, s) == IF norm.ok THEN norm.s ELSE s

(* the closure mapped over extracted_items *)
naturalsize_element(ex, binary, gnu, format, tie) ==
    IF ex.tag = "Numeric" THEN size_number(ex.n, binary, gnu, format, tie)
    ELSE normalized_or(normalize_special_values(ex.s), ex.s)

(* the container returned for the input's kind *)
naturalsize_container(value) == IF value.shape = "tuple" THEN "tuple" ELSE "list"

size_parsed(s, p, binary, gnu, format, tie) ==
    IF p.ok THEN size_number(p.v, binary, gnu, format, tie) ELSE s

size_text(s, norm, binary, gnu, format, tie) ==
    IF norm.ok THEN norm.s ELSE size_parsed(s, parse_value(s), binary, gnu, format, tie)

naturalsize_scalar(value, binary, gnu, format, tie) ==
    IF extract_f64(value).ok THEN size_number(value.v, binary, gnu, format, tie)
    ELSE IF extract_i64(value).ok
    THEN format_numeric_value(value.v, binary, gnu, format, tie)
    ELSE IF extract_String(value).ok
    THEN size_text(value.s, normalize_special_values(value.s), binary, gnu, format, tie)
    ELSE IF is_none(value) THEN NONE_TEXT
    ELSE IF py_repr(value).ok THEN py_repr(value).s
    ELSE unprintable(value)

(* ---------------------------- state machine --------------------------- *)

VARIABLES
    call,             \* the entry point invoked and its arguments
    pc,               \* "start" | "map" | "done"
    string_values,    \* intcomma, intword: the eagerly stringified elements
    extracted_items,  \* naturalsize: the eagerly extracted elements
    status,           \* per element of the parallel map: "todo" | "run" | "done"
    results,          \* the slots the parallel map collects into
    ret               \* what the call returned

vars == <<call, pc, string_values, extracted_items, status, results, ret>>

(* bounds *)
MaxItems == 2

NumWorkers == 2

(* the two sides a non-representable decimal tie can fall on *)
Ties == {"up", "down"}

UNSET == <<"<unset>">>

NoRet == [kind |-> "none", s |-> <<>>, items |-> <<>>]

FMT_1F == <<"%", ".", "1", "f">>

FMT_3F == <<"%", ".", "3", "f">>

Widget == PyObj(<<"<", "c", "l", "a", "s", "s", " ", "'", "W", "i", "d", "g", "e", "t", "'", ">">>, <<"<", "W", "i", "d", "g", "e", "t", ">">>, TRUE, TRUE)

Unprintable == PyObj(<<"<", "c", "l", "a", "s", "s", " ", "'", "O", "p", "a", "q", "u", "e", "'", ">">>, <<>>, FALSE, FALSE)

(* an object whose repr() is the text nan *)
Sentinel == PyObj(<<"<", "c", "l", "a", "s", "s", " ", "'", "S", "e", "n", "t", "i", "n", "e", "l", "'", ">">>, <<"n", "a", "n">>, TRUE, TRUE)

Items ==
    { PyStr(<<"+", "I", "n", "f">>), PyStr(<<"-", "I", "n", "f">>), PyStr(<<"N", "a", "N">>),
      PyStr(<<"i", "n", "f", "i", "n", "i", "t", "y">>), PyStr(<<"1", "e", "9", "9", "9">>),
      PyFloat(INF(FALSE)), PyFloat(NAN),
      PyStr(<<"1", "2", "3", "4", "5", "6", "7">>), PyInt(12400),
      PyBool(TRUE), PyNone, Widget, Sentinel, Unprintable }

(* the items that are mixed in collections of two or more elements *)
CoreItems ==
    { PyStr(<<"N", "a", "N">>), PyStr(<<"i", "n", "f", "i", "n", "i", "t", "y">>),
      PyFloat(INF(FALSE)), PyStr(<<"1", "2", "3", "4", "5", "6", "7">>), Unprintable }

(* the collections: empty, one element of any kind, up to n core elements *)
SeqsUpTo(n) ==
    {<<>>} \cup {<<i>> : i \in Items} \cup UNION {[1..m -> CoreItems] : m \in 2..n}

Values ==
    {Scalar(i) : i \in Items}
      \cup {Sequence(k, s, FALSE) : k \in {"list", "tuple", "other"}, s \in SeqsUpTo(MaxItems)}
      \cup {Sequence("other", s, TRUE) : s \in SeqsUpTo(MaxItems) \ {<<>>}}

Call(fn, value, ndigits, format, binary, gnu) ==
    [fn |-> fn, value |-> value, ndigits |-> ndigits, format |-> format,
     binary |-> binary, gnu |-> gnu]

Calls ==
    {Call(f, v, nd, FMT_1F, FALSE, FALSE) :
        f \in {"intcomma", "lib_intcomma"}, v \in Values,
        nd \in {NoDigits, SomeDigits(1)}}
      \cup {Call("intword", v, NoDigits, fm, FALSE, FALSE) :
              v \in Values, fm \in {FMT_1F, FMT_3F}}
      \cup {Call("naturalsize", v, NoDigits, FMT_1F, b, g) :
              v \in Values, b \in BOOLEAN, g \in BOOLEAN}
      \cup {Call("naturalsize", v, NoDigits, FMT_3F, FALSE, FALSE) : v \in Values}

Init ==
    /\ call \in Calls
    /\ pc = "start"
    /\ string_values = <<>>
    /\ extracted_items = <<>>
    /\ status = <<>>
    /\ results = <<>>
    /\ ret = NoRet

(* which path the entry point takes for its argument *)
IsCollection(c) ==
    IF c.fn = "intcomma" THEN intcomma_is_collection(c.value)
    ELSE IF c.fn = "lib_intcomma" THEN lib_intcomma_is_collection(c.value)
    ELSE IF c.fn = "intword" THEN intword_is_collection(c.value)
    ELSE naturalsize_is_collection(c.value)

(* the scalar path of the entry point *)
ScalarResult(c, tie) ==
    IF c.fn = "intcomma" THEN intcomma_scalar(AsObject(c.value), c.ndigits, tie)
    ELSE IF c.fn = "lib_intcomma"
    THEN lib_intcomma_scalar(AsObject(c.value), c.ndigits, tie)
    ELSE IF c.fn = "intword" THEN intword_scalar(AsObject(c.value), c.format, tie)
    ELSE naturalsize_scalar(AsObject(c.value), c.binary, c.gnu, c.format, tie)

(* the closure the parallel map applies to element k *)
MapElement(c, strs, exs, k, tie) ==
    IF c.fn = "intcomma" THEN format_single_value(strs[k], c.ndigits, tie)
    ELSE IF c.fn = "lib_intcomma" THEN lib_format_single_value(strs[k], c.ndigits, tie)
    ELSE IF c.fn = "intword" THEN intword_single(strs[k], c.format, tie)
    ELSE naturalsize_element(exs[k], c.binary, c.gnu, c.format, tie)

(* the container built from the collected results *)
Container(c) ==
    IF c.fn = "naturalsize" THEN naturalsize_container(c.value)
    ELSE IF c.value.shape = "tuple" THEN "tuple" ELSE "list"

(* results pushed in completion order: r lands in the first free slot *)
PlaceOnCompletion(res, k, r) ==
    [res EXCEPT ![CHOOSE j \in 1..Len(res) :
                     res[j] = UNSET /\ \A h \in 1..(j - 1) : res[h] # UNSET] = r]

(* rayon's indexed collect: the result of element k lands in slot k *)
Place(res, k, r) == [res EXCEPT ![k] = r]

(* the scalar path, start to return *)
ScalarCall ==
    /\ pc = "start"
    /\ ~IsCollection(call)
    /\ \E tie \in Ties : ret' = RetStr(ScalarResult(call, tie))
    /\ pc' = "done"
    /\ UNCHANGED <<call, string_values, extracted_items, status, results>>

(* the collection path up to the parallel map: every element is stringified
   (intcomma, intword) or extracted (naturalsize) on the calling thread *)
Extract ==
    /\ pc = "start"
    /\ IsCollection(call)
    /\ call.fn = "intword" =>
          \A i \in 1..Len(call.value.items) : intword_element(call.value.items[i]).ok
    /\ call.fn = "naturalsize" => ~call.value.iter_err
    /\ string_values' =
         IF call.fn = "intcomma"
         THEN [i \in 1..Len(call.value.items) |-> element_to_string(call.value.items[i])]
         ELSE IF call.fn = "lib_intcomma"
         THEN [i \in 1..Len(call.value.items) |-> lib_element_to_string(call.value.items[i])]
         ELSE IF call.fn = "intword"
         THEN [i \in 1..Len(call.value.items) |-> intword_element(call.value.items[i]).s]
         ELSE <<>>
    /\ extracted_items' =
         IF call.fn = "naturalsize"
         THEN [i \in 1..Len(call.value.items) |-> extract_to_extracted(call.value.items[i])]
         ELSE <<>>
    /\ status' = [i \in 1..Len(call.value.items) |-> "todo"]
    /\ results' = [i \in 1..Len(call.value.items) |-> UNSET]
    /\ pc' = "map"
    /\ UNCHANGED <<call, ret>>

(* intword: val.str().unwrap() panics on an element whose str() raises *)
ExtractPanic ==
    /\ pc = "start"
    /\ IsCollection(call)
    /\ call.fn = "intword"
    /\ \E i \in 1..Len(call.value.items) : ~intword_element(call.value.items[i]).ok
    /\ ret' = RetErr("PanicException")
    /\ pc' = "done"
    /\ UNCHANGED <<call, string_values, extracted_items, status, results>>

(* naturalsize: an error while iterating the value is returned to the caller *)
IterError ==
    /\ pc = "start"
    /\ IsCollection(call)
    /\ call.fn = "naturalsize"
    /\ call.value.iter_err
    /\ ret' = RetErr("RuntimeError")
    /\ pc' = "done"
    /\ UNCHANGED <<call, string_values, extracted_items, status, results>>

(* a worker of the pool takes element k *)
Start(k) ==
    /\ pc = "map"
    /\ status[k] = "todo"
    /\ Cardinality({i \in 1..Len(status) : status[i] = "run"}) < NumWorkers
    /\ status' = [status EXCEPT ![k] = "run"]
    /\ UNCHANGED <<call, pc, string_values, extracted_items, results, ret>>

(* the worker finishes element k and its result is collected *)
Finish(k) ==
    /\ pc = "map"
    /\ status[k] = "run"
    /\ \E tie \in Ties :
          results' = Place(results, k,
                           MapElement(call, string_values, extracted_items, k, tie))
    /\ status' = [status EXCEPT ![k] = "done"]
    /\ UNCHANGED <<call, pc, string_values, extracted_items, ret>>

(* all elements are done: the results are returned in the input's container *)
Collect ==
    /\ pc = "map"
    /\ \A i \in 1..Len(status) : status[i] = "done"
    /\ ret' = RetSeq(Container(call), results)
    /\ pc' = "done"
    /\ UNCHANGED <<call, string_values, extracted_items, status, results>>

Next ==
    \/ ScalarCall
    \/ Extract
    \/ ExtractPanic
    \/ IterError
    \/ \E k \in 1..Len(status) : Start(k)
    \/ \E k \in 1..Len(status) : Finish(k)
    \/ Collect

Spec == Init /\ [][Next]_vars

(* =============================== claims =============================== *)

(* the formatting of one input item on the collection path of the call *)
FormatItem(c, item, tie) ==
    IF c.fn = "intcomma" THEN format_single_value(element_to_string(item), c.ndigits, tie)
    ELSE IF c.fn = "lib_intcomma"
    THEN lib_format_single_value(lib_element_to_string(item), c.ndigits, tie)
    ELSE IF c.fn = "intword" THEN intword_single(py_str(item).s, c.format, tie)
    ELSE naturalsize_element(extract_to_extracted(item), c.binary, c.gnu, c.format, tie)

ReturnedCollection == pc = "done" /\ ret.kind \in {"list", "tuple"}

ReturnedScalar == pc = "done" /\ ret.kind = "str" /\ call.value.shape = "scalar"

(* C1: on the collection path of intcomma, intword and naturalsize, whatever
   the order in which the workers start and finish, a finished element's
   result sits in the slot of its own index, and the returned collection has
   exactly n entries, entry k being the formatting of input item k. *)
Thm_C1_OrderPreserved ==
    /\ pc = "map" =>
          \A k \in 1..Len(status) :
             status[k] = "done" =>
                \E tie \in Ties : results[k] = FormatItem(call, call.value.items[k], tie)
    /\ ReturnedCollection =>
          /\ Len(ret.items) = Len(call.value.items)
          /\ \A k \in 1..Len(call.value.items) :
                \E tie \in Ties : ret.items[k] = FormatItem(call, call.value.items[k], tie)

(* a later element finished before an earlier one whose result differs *)
Wit_C1_OutOfOrder ==
    /\ pc = "map"
    /\ Len(status) >= 2
    /\ status[1] # "done"
    /\ status[2] = "done"
    /\ results[2] = FormatItem(call, call.value.items[2], "up")
    /\ results[2] # FormatItem(call, call.value.items[1], "up")

(* C2 (as claimed): every entry point, given a list, a tuple or any other
   non-text sequence, returns a collection with one entry per element: a
   tuple for a tuple, a list for every other sequence kind; never one text. *)
Claim_C2_AnySequenceIsCollection ==
    (pc = "done" /\ call.value.shape # "scalar" /\ ret.kind \in {"str", "list", "tuple"}) =>
        /\ ret.kind = (IF call.value.shape = "tuple" THEN "tuple" ELSE "list")
        /\ Len(ret.items) = Len(call.value.items)

IsUnprintable(item) == item.t = "obj" /\ ~item.repr_ok /\ ~item.str_ok

(* C3 (as claimed): an item that cannot be stringified never makes the call
   fail; on the scalar path the result is the placeholder, on the collection
   path that element is the placeholder and every other element is still
   formatted. *)
Claim_C3_UnprintableNeverFails ==
    /\ (pc = "done" /\ call.value.shape = "scalar" /\ IsUnprintable(call.value.item)) =>
          ret = RetStr(unprintable(call.value.item))
    /\ (/\ pc = "done"
        /\ IsCollection(call)
        /\ ~call.value.iter_err
        /\ \E k \in 1..Len(call.value.items) : IsUnprintable(call.value.items[k])) =>
          /\ ret.kind \in {"list", "tuple"}
          /\ Len(ret.items) = Len(call.value.items)
          /\ \A k \in 1..Len(call.value.items) :
                IF IsUnprintable(call.value.items[k])
                THEN ret.items[k] = unprintable(call.value.items[k])
                ELSE \E tie \in Ties :
                        ret.items[k] = FormatItem(call, call.value.items[k], tie)

(* the item classifies as a non-finite number: a non-finite float, or text
   that is no special token and parses to a non-finite value *)
ClassifiesNonFinite(item) ==
    \/ item.t = "float" /\ ~is_finite(item.v)
    \/ /\ item.t = "str"
       /\ ~normalize_special_values(item.s).ok
       /\ parse_value(item.s).ok
       /\ ~is_finite(parse_value(item.s).v)

NonFiniteValue(item) == IF item.t = "float" THEN item.v ELSE parse_value(item.s).v

NonFiniteText(v) ==
    IF v.k = "nan" THEN <<"N", "a", "N">> ELSE IF v.neg THEN <<"-", "I", "n", "f">> ELSE <<"+", "I", "n", "f">>

(* C4 (as claimed): in every formatter and implementation, the intcomma of
   lib.rs included, an input that classifies as a non-finite number is
   rendered as exactly "+Inf", "-Inf" or "NaN". *)
Claim_C4_NonFiniteConvention ==
    /\ (ReturnedScalar /\ ClassifiesNonFinite(call.value.item)) =>
          ret.s = NonFiniteText(NonFiniteValue(call.value.item))
    /\ ReturnedCollection =>
          \A k \in 1..Len(call.value.items) :
             ClassifiesNonFinite(call.value.items[k]) =>
                ret.items[k] = NonFiniteText(NonFiniteValue(call.value.items[k]))

SpecialTokens == {<<"+", "I", "n", "f">>, <<"-", "I", "n", "f">>, <<"N", "a", "N">>}

IsToken(item) == item.t = "str" /\ item.s \in SpecialTokens

(* C5: the normalized tokens "+Inf", "-Inf", "NaN", as a scalar or as an
   element of a collection, come back unchanged from every entry point and
   for every flag and precision setting. *)
Thm_C5_TokensIdempotent ==
    /\ (ReturnedScalar /\ IsToken(call.value.item)) => ret.s = call.value.item.s
    /\ ReturnedCollection =>
          /\ Len(ret.items) = Len(call.value.items)
          /\ \A k \in 1..Len(call.value.items) :
                IsToken(call.value.items[k]) => ret.items[k] = call.value.items[k].s

(* naturalsize returned "+Inf" for the element "+Inf" of a collection, which
   it reaches through parse_value and format_not_finite *)
Wit_C5_TokenInCollection ==
    /\ ReturnedCollection
    /\ call.fn = "naturalsize"
    /\ call.gnu
    /\ Len(call.value.items) = 1
    /\ call.value.items[1] = PyStr(<<"+", "I", "n", "f">>)
    /\ ret.items[1] = <<"+", "I", "n", "f">>

(* ------------------------ the digit-group formatter ----------------------- *)

(* bound: the longest digit string grouped *)
MaxDigits == 7

GroupDigits == {"0", "1", "9"}

(* the non-negative integer strings without a leading zero *)
IntegerStrings ==
    {s \in UNION {[1..n -> GroupDigits] : n \in 1..MaxDigits} : Len(s) = 1 \/ s[1] # "0"}

InitCommas ==
    /\ call \in [fn : {"add_commas", "lib_add_commas"}, whole : IntegerStrings]
    /\ pc = "start"
    /\ string_values = <<>>
    /\ extracted_items = <<>>
    /\ status = <<>>
    /\ results = <<>>
    /\ ret = NoRet

(* format_utils::add_commas applied to the whole part *)
AddCommas ==
    /\ pc = "start"
    /\ call.fn = "add_commas"
    /\ ret' = RetStr(add_commas(call.whole))
    /\ pc' = "done"
    /\ UNCHANGED <<call, string_values, extracted_items, status, results>>

(* the add_commas of lib.rs applied to the whole part *)
LibAddCommas ==
    /\ pc = "start"
    /\ call.fn = "lib_add_commas"
    /\ ret' = RetStr(lib_add_commas(call.whole))
    /\ pc' = "done"
    /\ UNCHANGED <<call, string_values, extracted_items, status, results>>

NextCommas ==
    \/ AddCommas
    \/ LibAddCommas

SpecCommas == InitCommas /\ [][NextCommas]_vars

(* the number of separators between digit j of an n-digit string and its
   left end: the gaps g < j with n - g a multiple of 3 *)
SeparatorsBefore(n, j) == ((n - 1) \div 3) - ((n - j) \div 3)

(* the position digit j of an n-digit string takes in the grouped text *)
DigitPosition(n, j) == j + SeparatorsBefore(n, j)

(* C6: for every digit string s without a leading zero, add_commas(s) without
   its commas is s again; the grouped text holds the digits of s in order,
   digit j moved right by one place for every gap to its left that has a
   multiple of 3 digits after it, and a comma at every other position: so no
   comma leads the text, and a string of fewer than 4 digits gets none. *)
Thm_C6_GroupingRoundTrip ==
    pc = "done" =>
        /\ remove_commas(ret.s) = call.whole
        /\ Len(ret.s) = Len(call.whole) + ((Len(call.whole) - 1) \div 3)
        /\ \A j \in 1..Len(call.whole) :
              ret.s[DigitPosition(Len(call.whole), j)] = call.whole[j]
        /\ \A p \in 1..Len(ret.s) :
              (ret.s[p] = ",") <=>
                  (\A j \in 1..Len(call.whole) : DigitPosition(Len(call.whole), j) # p)
        /\ Len(call.whole) < 4 => ret.s = call.whole
        /\ ret.s[1] # ","

(* a string whose length is a multiple of 3 has been grouped *)
Wit_C6_LengthMultipleOfThree ==
    /\ pc = "done"
    /\ Len(call.whole) = 6
    /\ ret.s = <<call.whole[1], call.whole[2], call.whole[3], ",",
                 call.whole[4], call.whole[5], call.whole[6]>>

(* ------------------------- the precision renderer ------------------------- *)

(* bound: the longest spec string *)
MaxSpecLen == 5

SpecChars == {"%", ".", "0", "2", "f", "x"}

SpecStrings == UNION {[1..n -> SpecChars] : n \in 0..MaxSpecLen}

(* 1.5 and 0.125, binary fractions, and 2.675, which is none *)
StyleValues == {Fin(FALSE, 15, -1), Fin(FALSE, 125, -3), Fin(TRUE, 2675, -3)}

InitPrintf ==
    /\ call \in [fn : {"apply_printf_style"}, format : SpecStrings,
                  value : StyleValues, tie : Ties]
    /\ pc = "start"
    /\ string_values = <<>>
    /\ extracted_items = <<>>
    /\ status = <<>>
    /\ results = <<>>
    /\ ret = NoRet

ApplyPrintfStyle ==
    /\ pc = "start"
    /\ call.fn = "apply_printf_style"
    /\ ret' = RetStr(apply_printf_style(call.format, call.value,
                                        TieOf(Exact(call.value), call.tie)))
    /\ pc' = "done"
    /\ UNCHANGED <<call, string_values, extracted_items, status, results>>

NextPrintf == ApplyPrintfStyle

SpecPrintf == InitPrintf /\ [][NextPrintf]_vars

(* the spec string is "%." followed by one or more digits and "f", and
   nothing else *)
IsPrecisionSpec(f) ==
    /\ Len(f) >= 4
    /\ f[1] = "%"
    /\ f[2] = "."
    /\ f[Len(f)] = "f"
    /\ \A i \in 3..(Len(f) - 1) : IsDigit(f[i])

PrecisionOf(f) == ToNat(SubSeq(f, 3, Len(f) - 1))

(* C10: apply_printf_style renders the value with exactly N fractional digits
   when the spec string is exactly "%.<N>f", and with its natural precision
   for every other spec string. *)
Claim_C10_PrecisionIffExactSpec ==
    pc = "done" =>
        IF IsPrecisionSpec(call.format)
        THEN ret.s = RenderFixed(call.value, PrecisionOf(call.format),
                                 TieOf(Exact(call.value), call.tie))
        ELSE ret.s = to_string(call.value)

(* ------------------------- the byte-size formatter ------------------------ *)

(* bounds: the decimal exponents and the powers of 1024 of the sizes *)
MaxSizeExp == 6

MaxSizeBin == 3

FMT_0F == <<"%", ".", "0", "f">>

SizeFormats == {FMT_1F, FMT_0F, <<>>}

DecimalMants == {1, 999, 1500, 99994, 99995, 999999}

BinaryMants == {1, 1023, 1024, 1536, 1048575}

(* m * 10^e bytes, up to and beyond the last decimal unit *)
DecimalSizes ==
    {Fin(n, m, e) : n \in BOOLEAN, m \in DecimalMants, e \in (0..MaxSizeExp) \cup {27, 30}}

(* m * 1024^k bytes, up to and beyond the last binary unit *)
BinarySizes ==
    {[Fin(n, m, 0) EXCEPT !.bin = 10 * k] :
        n \in BOOLEAN, m \in BinaryMants, k \in (0..MaxSizeBin) \cup {9, 10}}

SizeCall(bytes, binary, gnu, format, tie) ==
    [fn |-> "format_numeric_value", bytes |-> bytes, binary |-> binary, gnu |-> gnu,
     format |-> format, tie |-> tie]

InitSize ==
    /\ call \in {SizeCall(v, FALSE, FALSE, f, t) :
                    v \in DecimalSizes, f \in SizeFormats, t \in Ties}
                \cup {SizeCall(v, fl[1], fl[2], f, t) :
                        v \in BinarySizes,
                        fl \in {<<TRUE, FALSE>>, <<FALSE, TRUE>>, <<TRUE, TRUE>>},
                        f \in SizeFormats, t \in Ties}
    /\ pc = "start"
    /\ string_values = <<>>
    /\ extracted_items = <<>>
    /\ status = <<>>
    /\ results = <<>>
    /\ ret = NoRet

FormatNumericValue ==
    /\ pc = "start"
    /\ call.fn = "format_numeric_value"
    /\ ret' = RetStr(format_numeric_value(call.bytes, call.binary, call.gnu,
                                          call.format, call.tie))
    /\ pc' = "done"
    /\ UNCHANGED <<call, string_values, extracted_items, status, results>>

NextSize == FormatNumericValue

SpecSize == InitSize /\ [][NextSize]_vars

SizeBase == IF call.gnu \/ call.binary THEN 1024 ELSE 1000

(* |v| >= base^j, without logarithms *)
AtLeastPower(v, base, j) ==
    IF base = 1000 THEN ~MagLt(F64Abs(v), Fin(FALSE, 1, 3 * j))
    ELSE IF j < v.bin \div 10 THEN v.mant >= 1
    ELSE /\ j - (v.bin \div 10) <= 3
         /\ \/ v.mant * Pow10(v.exp) > Pow2(10 * (j - (v.bin \div 10)))
            \/ /\ v.mant * Pow10(v.exp) = Pow2(10 * (j - (v.bin \div 10)))
               /\ v.ulp >= 0

(* the unit the unrounded magnitude lies in: the last one from there on *)
MagnitudeUnit(v, base, max) == Cardinality({j \in 1..max : AtLeastPower(v, base, j)})

UnitSuffix(u) ==
    IF call.gnu THEN <<SUFFIXES_GNU[u]>>
    ELSE IF call.binary THEN SUFFIXES_BINARY[u]
    ELSE SUFFIXES_DECIMAL[u]

NumericChars == {"-", "."} \cup {DIGITS[i] : i \in 1..10}

(* the length of the numeric part an output starts with *)
NumericLen(out) ==
    Cardinality({p \in 1..Len(out) : \A q \in 1..p : out[q] \in NumericChars})

NumericPart(out) == SubSeq(out, 1, NumericLen(out))

UnitPart(out) == SubSeq(out, NumericLen(out) + 1, Len(out))

(* C9: a size of at least one unit is reported in the unit its unrounded
   magnitude lies in, also when its scaled form rounds at the requested
   precision up to the next unit's threshold: the numeric part is the scaled
   form as rendered and the suffix stays that of the lower unit. *)
Thm_C9_NoPromotion ==
    (pc = "done" /\ AtLeastPower(call.bytes, SizeBase, 1)) =>
        /\ UnitPart(ret.s) =
              UnitSuffix(MagnitudeUnit(call.bytes, SizeBase, table_len(call.binary, call.gnu)))
        /\ (call.bytes = Fin(FALSE, 999999, 0) /\ call.format = FMT_1F /\ SizeBase = 1000)
              => NumericPart(ret.s) = <<"1", "0", "0", "0", ".", "0">>
        /\ (F64Abs(call.bytes) = Fin(FALSE, 1048575, 0) /\ call.format = FMT_0F
              /\ SizeBase = 1024) => NumericPart(ret.s) \in {<<"1", "0", "2", "4">>,
                                                              <<"-", "1", "0", "2", "4">>}

(* 999,999 bytes in the decimal scheme at one fractional digit *)
Wit_C9_RoundsToThreshold ==
    /\ pc = "done"
    /\ call.bytes = Fin(FALSE, 999999, 0)
    /\ ~call.binary /\ ~call.gnu
    /\ call.format = FMT_1F
    /\ ret.s = <<"1", "0", "0", "0", ".", "0", " ", "k", "B">>

(* ------------------------- the scale-word formatter ----------------------- *)

(* bound: the decimal exponents of the magnitudes below the last buckets *)
MaxWordExp == 8

WordMants == {1, 99994, 99995, 99996}

(* up to MaxWordExp, around 1e33 and around 1e100 *)
WordExps == (0..MaxWordExp) \cup {28, 30, 95, 96}

Magnitudes == {Fin(FALSE, m, e) : m \in WordMants, e \in WordExps}

WordFormats == {FMT_1F, FMT_0F, <<"%", "d">>}

(* two magnitudes a <= b; equal magnitudes round the same way *)
WordPairs ==
    {p \in [a : Magnitudes, b : Magnitudes, format : WordFormats, ta : Ties, tb : Ties] :
        /\ ~MagLt(p.b, p.a)
        /\ p.a = p.b => p.ta = p.tb}

WordCall(p) ==
    [fn |-> "intword_single", a |-> to_string(p.a), b |-> to_string(p.b),
     format |-> p.format, ta |-> p.ta, tb |-> p.tb]

InitWord ==
    /\ call \in {WordCall(p) : p \in WordPairs}
    /\ pc = "start"
    /\ string_values = <<>>
    /\ extracted_items = <<>>
    /\ status = <<>>
    /\ results = <<>>
    /\ ret = NoRet

(* intword_single applied to the smaller magnitude *)
ScaleFirst ==
    /\ pc = "start"
    /\ call.fn = "intword_single"
    /\ results' = <<intword_single(call.a, call.format, call.ta)>>
    /\ pc' = "second"
    /\ UNCHANGED <<call, string_values, extracted_items, status, ret>>

(* intword_single applied to the larger magnitude *)
ScaleSecond ==
    /\ pc = "second"
    /\ results' = Append(results, intword_single(call.b, call.format, call.tb))
    /\ pc' = "done"
    /\ UNCHANGED <<call, string_values, extracted_items, status, ret>>

NextWord ==
    \/ ScaleFirst
    \/ ScaleSecond

SpecWord == InitWord /\ [][NextWord]_vars

(* the output ends with a space and the i-th scale word *)
EndsWithWord(out, i) ==
    /\ Len(out) > Len(HUMAN_POWERS[i]) + 1
    /\ SubSeq(out, Len(out) - Len(HUMAN_POWERS[i]), Len(out)) = <<" ">> \o HUMAN_POWERS[i]

(* the index of the scale word attached to an output, 0 without one *)
WordIndex(out) ==
    IF \E i \in 1..12 : EndsWithWord(out, i)
    THEN CHOOSE i \in 1..12 : EndsWithWord(out, i)
    ELSE 0

InWordRange(text, hi) ==
    /\ ~MagLt(parse_value(text).v, POWERS[1])
    /\ MagLt(parse_value(text).v, hi)

(* the number an output starts with *)
NumericValue(out) == parse_value(NumericPart(out)).v

(* C7: for intword with a spec "%.Nf" and a magnitude in [1000, 1e33), the
   numeric part of the output lies in [1, 1000): a rendering that reaches
   the ratio of two consecutive scales is replaced by the next scale's. *)
Claim_C7_PromotionKeepsRange ==
    \A k \in 1..Len(results) :
        (IsPrecisionSpec(call.format)
           /\ InWordRange(IF k = 1 THEN call.a ELSE call.b, POWERS[11])) =>
            /\ ~MagLt(NumericValue(results[k]), Fin(FALSE, 1, 0))
            /\ MagLt(NumericValue(results[k]), Fin(FALSE, 1, 3))

(* C8: for two magnitudes a <= b in [1000, 1e100) and one format spec, both
   outputs carry a scale word and the index of a's word is never greater
   than the index of b's, promotions included. *)
Thm_C8_ScaleIndexMonotone ==
    (pc = "done" /\ InWordRange(call.a, POWERS[12]) /\ InWordRange(call.b, POWERS[12])) =>
        /\ WordIndex(results[1]) >= 1
        /\ WordIndex(results[1]) <= WordIndex(results[2])

(* 999,960 is promoted to the scale 1,000,000 lies in *)
Wit_C8_PromotedBelowNextScale ==
    /\ pc = "done"
    /\ call.format = FMT_1F
    /\ call.a = <<"9", "9", "9", "9", "6", "0">>
    /\ call.b = <<"1", "0", "0", "0", "0", "0", "0">>
    /\ WordIndex(results[1]) = 2
    /\ WordIndex(results[2]) = 2

(* --------------------- the exponent of the byte-size unit ----------------- *)

(* the doubles one ulp below base^k, k >= 2, within and beyond the tables *)
NearPowerSizes ==
    {[Fin(n, 1, 3 * k) EXCEPT !.ulp = -1] : n \in BOOLEAN, k \in (2..(MaxSizeBin + 1)) \cup {11}}

NearPowerSizesBinary ==
    {[Fin(n, 1, 0) EXCEPT !.bin = 10 * k, !.ulp = -1] :
        n \in BOOLEAN, k \in (2..(MaxSizeBin + 1)) \cup {11}}

InitUnit ==
    /\ call \in {SizeCall(v, FALSE, FALSE, f, t) :
                    v \in DecimalSizes, f \in SizeFormats, t \in Ties}
                \cup {SizeCall(v, FALSE, FALSE, f, t) :
                        v \in NearPowerSizes, f \in {FMT_1F, FMT_0F}, t \in Ties}
                \cup {SizeCall(v, fl[1], fl[2], f, t) :
                        v \in BinarySizes,
                        fl \in {<<TRUE, FALSE>>, <<FALSE, TRUE>>, <<TRUE, TRUE>>},
                        f \in SizeFormats, t \in Ties}
                \cup {SizeCall(v, fl[1], fl[2], f, t) :
                        v \in NearPowerSizesBinary,
                        fl \in {<<TRUE, FALSE>>, <<FALSE, TRUE>>, <<TRUE, TRUE>>},
                        f \in {FMT_1F, FMT_0F}, t \in Ties}
    /\ pc = "start"
    /\ string_values = <<>>
    /\ extracted_items = <<>>
    /\ status = <<>>
    /\ results = <<>>
    /\ ret = NoRet

NextUnit == FormatNumericValue

SpecUnit == InitUnit /\ [][NextUnit]_vars

(* floor(log_base |v|) clamped to the table, by comparison with the powers *)
FloorLogClamped == MagnitudeUnit(call.bytes, SizeBase, 10)

(* v / base^e rendered at the requested precision, followed by suffix e *)
ScaledBy(e) ==
    apply_printf_style(call.format, div_powi(call.bytes, SizeBase, e),
                       TieOf(exact_quotient(call.bytes, div_powi(call.bytes, SizeBase, e),
                                            SizeBase), call.tie))
      \o UnitSuffix(e)

(* C11: for every finite v with |v| >= base, under every flag combination,
   the exponent is floor(log_base |v|) clamped to 1..10, its suffix is an
   entry of the selected 10-entry table, never '?', the output is v / base^e
   rendered at the requested precision followed by that suffix, and every
   |v| >= base^10 carries the last suffix. *)
Claim_C11_ExponentIsFloorLog ==
    (pc = "done" /\ AtLeastPower(call.bytes, SizeBase, 1)) =>
        /\ FloorLogClamped \in 1..table_len(call.binary, call.gnu)
        /\ \A p \in 1..Len(ret.s) : ret.s[p] # "?"
        /\ ret.s = ScaledBy(FloorLogClamped)
        /\ AtLeastPower(call.bytes, SizeBase, 10) => UnitPart(ret.s) = UnitSuffix(10)

(* ------------------------ the classification of text ---------------------- *)

(* bound: the longest text over TextChars *)
MaxTextLen == 4

TextChars == {"1", ".", "e", "-", ","}

(* the texts over TextChars, and a few with a sign, a word or a space *)
Texts ==
    UNION {[1..n -> TextChars] : n \in 0..MaxTextLen}
      \cup { <<"+", "1">>, <<"+", ".", "1", "E", "+", "1">>, <<" ", "1">>, <<"a", "b", "c">>,
             <<"i", "n", "f", "i", "n", "i", "t", "y">>, <<"-", "I", "n", "f", "i", "n", "i", "t", "y">>,
             <<"1", "e", "9", "9", "9">>, <<"1", "2", "3", "4", ".", "5">> }

(* every formatter called with a text, or with a list of one text *)
InitText ==
    /\ call \in {Call(f, v, NoDigits, FMT_1F, FALSE, FALSE) :
                    f \in {"intcomma", "lib_intcomma", "intword", "naturalsize"},
                    v \in {Scalar(PyStr(t)) : t \in Texts}
                           \cup {Sequence("list", <<PyStr(t)>>, FALSE) : t \in Texts}}
    /\ pc = "start"
    /\ string_values = <<>>
    /\ extracted_items = <<>>
    /\ status = <<>>
    /\ results = <<>>
    /\ ret = NoRet

NextText ==
    \/ ScalarCall
    \/ Extract
    \/ \E k \in 1..Len(status) : Start(k)
    \/ \E k \in 1..Len(status) : Finish(k)
    \/ Collect

SpecText == InitText /\ [][NextText]_vars

(* the text item of the call and what was returned for it *)
TextItem == IF call.value.shape = "scalar" THEN call.value.item.s ELSE call.value.items[1].s

TextOutput == IF call.value.shape = "scalar" THEN ret.s ELSE ret.items[1]

(* a spelling of a special token: inf, +inf, -inf, nan in any case, spaces
   around it allowed *)
IsSpecialSpelling(t) ==
    to_ascii_lowercase(trim(t)) \in
        {<<"i", "n", "f">>, <<"+", "i", "n", "f">>, <<"-", "i", "n", "f">>, <<"n", "a", "n">>}

AllDigits(t) == \A k \in 1..Len(t) : IsDigit(t[k])

(* digits, optionally followed by one point and digits *)
IsPlainUnsigned(t) ==
    \/ Len(t) >= 1 /\ AllDigits(t)
    \/ \E p \in 2..(Len(t) - 1) :
          /\ t[p] = "."
          /\ AllDigits(SubSeq(t, 1, p - 1))
          /\ AllDigits(SubSeq(t, p + 1, Len(t)))

(* optional sign, digits, optional single decimal point and digits *)
IsPlainDecimal(t) ==
    \/ IsPlainUnsigned(t)
    \/ Len(t) >= 1 /\ t[1] \in {"+", "-"} /\ IsPlainUnsigned(Tail(t))

(* digits with at most one point among them, at least one digit *)
IsMantissa(t) ==
    \/ Len(t) >= 1 /\ AllDigits(t)
    \/ \E p \in 1..Len(t) :
          /\ Len(t) >= 2
          /\ t[p] = "."
          /\ AllDigits(SubSeq(t, 1, p - 1))
          /\ AllDigits(SubSeq(t, p + 1, Len(t)))

(* e or E, an optional sign, one or more digits *)
IsExponent(t) ==
    /\ Len(t) >= 2
    /\ t[1] \in {"e", "E"}
    /\ \/ AllDigits(Tail(t))
       \/ Len(t) >= 3 /\ t[2] \in {"+", "-"} /\ AllDigits(SubSeq(t, 3, Len(t)))

IsFloatUnsigned(t) ==
    \/ to_ascii_lowercase(t) \in
          {<<"i", "n", "f">>, <<"i", "n", "f", "i", "n", "i", "t", "y">>, <<"n", "a", "n">>}
    \/ IsMantissa(t)
    \/ \E c \in 1..(Len(t) - 1) :
          IsMantissa(SubSeq(t, 1, c)) /\ IsExponent(SubSeq(t, c + 1, Len(t)))

(* the literals of the f64 grammar: optional sign, then inf, infinity or nan
   in any case, or a mantissa with an optional exponent *)
IsFloatLiteral(t) ==
    \/ IsFloatUnsigned(t)
    \/ Len(t) >= 1 /\ t[1] \in {"+", "-"} /\ IsFloatUnsigned(Tail(t))

(* C12: for every formatter, a text that is not a special token is numeric
   exactly when, its commas removed, it is an optional sign, digits and
   optionally one point and digits; every other text comes back unchanged. *)
Claim_C12_NumericIffPlainDecimal ==
    (pc = "done" /\ ~IsSpecialSpelling(TextItem)) =>
        /\ parse_value(TextItem).ok <=> IsPlainDecimal(remove_commas(TextItem))
        /\ ~IsPlainDecimal(remove_commas(TextItem)) => TextOutput = TextItem

(* C12 as amended: the numeric texts are those that, their commas removed,
   are literals of the f64 grammar, an exponent, a missing digit on one side
   of the point and the words inf, infinity and nan included; every other
   text comes back unchanged. *)
Thm_C12_NumericIffFloatLiteral ==
    (pc = "done" /\ ~IsSpecialSpelling(TextItem)) =>
        /\ parse_value(TextItem).ok <=> IsFloatLiteral(remove_commas(TextItem))
        /\ ~IsFloatLiteral(remove_commas(TextItem)) => TextOutput = TextItem

(* intcomma returned "10" for the element "1e1" of a list *)
Wit_C12_ExponentIsNumeric ==
    /\ pc = "done"
    /\ call.fn = "intcomma"
    /\ call.value.shape = "list"
    /\ TextItem = <<"1", "e", "1">>
    /\ TextOutput = <<"1", "0">>

(* ------------------- a collection of one item and the item ---------------- *)

(* the call made with the only item of its collection as a scalar *)
ScalarOfItem == [call EXCEPT !.value = Scalar(call.value.items[1])]

IsSingleton == call.value.shape \in {"list", "tuple"} /\ Len(call.value.items) = 1

(* C13: for every formatter and every item x, formatting the collection [x]
   returns a collection of one entry, and the entry is what formatting x as
   a scalar with the same options returns. *)
Claim_C13_SingletonMatchesScalar ==
    (pc = "done" /\ IsSingleton) =>
        /\ ret.kind = call.value.shape
        /\ Len(ret.items) = 1
        /\ \E tie \in Ties : ret.items[1] = ScalarResult(ScalarOfItem, tie)

====
